---- MODULE Spec2Model ----
(***************************************************************************)
(* The DATA_STORE of data.js: two collections (articles, users) held in    *)
(* memory as arrays of object references, mirrored to localStorage as      *)
(* JSON text.  Objects and arrays live in a heap, so that the aliasing the *)
(* JavaScript code creates (the store's array being INITIAL_DATA's array,  *)
(* a getter handing out the store's own records) is part of the model.     *)
(***************************************************************************)
EXTENDS Integers, Sequences, FiniteSets, TLC

(***************************************************************************)
(* Bounds of the model.                                                    *)
(***************************************************************************)
MaxOps == 2        \* public calls made after the load-time init()
MaxClock == 2      \* Date.now() takes the values 1..MaxClock
MsPerDay == 2      \* clock ticks per calendar day

(***************************************************************************)
(* JavaScript values.  Every value is a record of one shape, so that any   *)
(* two values can be compared: t is the value's type tag, n its number and *)
(* s its text.                                                             *)
(***************************************************************************)
Num(n) == [t |-> "num", n |-> n, s |-> ""]
\* The number Epoch * 10000 + k, where Epoch is the instant the clock starts
\* at (Date.now() = Epoch + now).  For every Epoch from 1998 to January 2027
\* this number lies between 2^53 and 2^54, where a double holds the even
\* integers only.
Big(k) == [t |-> "num", n |-> k, s |-> "big"]
Str(s) == [t |-> "str", n |-> 0, s |-> s]
Null == [t |-> "null", n |-> 0, s |-> ""]
Undef == [t |-> "undef", n |-> 0, s |-> ""]
NaN == [t |-> "nan", n |-> 0, s |-> ""]
\* new Date(t).toISOString(): a text determined by the clock value
Iso(t) == [t |-> "str", n |-> t, s |-> "iso"]
\* new Date(t).toISOString().split('T')[0]: the date part only
DateOnly(t) == [t |-> "str", n |-> t \div MsPerDay, s |-> "date"]

\* The outcome of a loop that never ends
Diverges == [t |-> "diverges", n |-> 0, s |-> ""]

\* JavaScript truthiness of a value
Truthy(v) == ~(v \in {Null, Undef, NaN, Num(0), Str("")})

\* parseInt(x): a number is returned as it is (the model holds integers
\* only), a text of digits parses to its number, anything else is NaN
ParseInt(v) ==
  IF v.t = "num" THEN v
  ELSE IF v = Str("1") THEN Num(1)
  ELSE IF v = Str("2") THEN Num(2)
  ELSE NaN

(***************************************************************************)
(* Objects are functions from the names of their own properties to values. *)
(***************************************************************************)
Has(o, f) == f \in DOMAIN o
\* o.f, undefined when o has no such property
Get(o, f) == IF f \in DOMAIN o THEN o[f] ELSE Undef
\* Object.assign({}, a, b) and { ...a, ...b }: b's properties win
Merge(a, b) == b @@ a
\* the properties of o whose names are in keys
Restrict(o, keys) == [k \in (DOMAIN o) \cap keys |-> o[k]]

STORAGE_KEYS == {"articles", "users"}
ARTICLE_STATUS == {Str("draft"), Str("review"), Str("published")}
USER_ROLES == {Str("admin"), Str("author"), Str("editor"), Str("reader")}
PUBLISHED == Str("published")

\* Number that scales the timestamp in generateUniqueId, and bounds its
\* random component
IdScale == 10000

(***************************************************************************)
(* Validators                                                              *)
(***************************************************************************)
RequiredArticleFields ==
  {"title", "category", "summary", "content", "author", "authorId", "status"}

isValidArticle(article) ==
  /\ \A f \in RequiredArticleFields : Has(article, f)
  /\ article["status"] \in ARTICLE_STATUS
  /\ article["authorId"].t \in {"num", "nan"}   \* typeof NaN is 'number' too

RequiredUserFields == {"id", "name", "email", "role"}

isValidUser(user) ==
  /\ \A f \in RequiredUserFields : Has(user, f)
  /\ user["role"] \in USER_ROLES
  /\ user["id"].t \in {"num", "nan"}

AllowedUpdateFields ==
  {"title", "category", "image", "summary", "content",
   "status", "views", "engagement", "publishDate"}

\* Mutant of sanitizeArticleUpdates: every property is let through
sanitizeNothing(updates) == updates

sanitizeArticleUpdates(updates) == Restrict(updates, AllowedUpdateFields)

(***************************************************************************)
(* INITIAL_DATA: the bundled seed.  Texts are abbreviated; ids, authorIds, *)
(* statuses, dates and counters are those of the source.                   *)
(***************************************************************************)
SeedUser(i, name, email, role, followers) ==
  [id |-> Num(i), name |-> Str(name), email |-> Str(email), role |-> Str(role),
   avatar |-> Str("img"), bio |-> Str("bio"), followers |-> Num(followers)]

InitialUsers ==
  << SeedUser(1, "Priya Chatterjee", "priya@kcc.in", "author", 1243),
     SeedUser(2, "Arnab Sen", "arnab@kcc.in", "author", 2156),
     SeedUser(3, "Moumita Roy", "moumita@kcc.in", "editor", 876),
     SeedUser(4, "Arijit Mukherjee", "arijit@kcc.in", "author", 3421),
     SeedUser(5, "Shreya Das", "shreya@kcc.in", "author", 987),
     SeedUser(6, "Rahul Bose", "rahul@kcc.in", "author", 512),
     SeedUser(7, "Admin User", "admin@kcc.in", "admin", 0) >>

SeedArticle(i, title, category, author, authorId, date, views, engagement) ==
  [id |-> Num(i), title |-> Str(title), category |-> Str(category),
   image |-> Str("img"), summary |-> Str("summary"), content |-> Str("Lorem"),
   author |-> Str(author), authorId |-> Num(authorId), status |-> PUBLISHED,
   publishDate |-> Str(date), views |-> Num(views), engagement |-> Num(engagement)]

InitialArticles ==
  << SeedArticle(1, "Park Street", "Heritage", "Priya Chatterjee", 1, "2024-10-15", 1234, 89),
     SeedArticle(2, "Adda", "Adda", "Arnab Sen", 2, "2024-10-14", 2156, 234),
     SeedArticle(3, "Metro", "Metro", "Rahul Bose", 6, "2024-10-13", 876, 156),
     SeedArticle(4, "Maach-Bhaat", "Maach-Bhaat", "Arijit Mukherjee", 4, "2024-10-12", 3421, 298) >>

(***************************************************************************)
(* The state.                                                              *)
(*   heap     object reference -> object (the live objects)                *)
(*   arrays   array reference -> sequence of object references             *)
(*   articles, users   DATA_STORE.articles / DATA_STORE.users: array refs  *)
(*   ls       localStorage: key -> stored text                             *)
(*   now      the clock, Date.now()                                        *)
(*   loaded   whether the load-time DATA_STORE.init() has run              *)
(*   nops     number of public calls made since                            *)
(*   last     the last call: its name, arguments and result                *)
(*   other    a second page open on the same origin, which has loaded the  *)
(*            script and so has a DATA_STORE of its own: its articles,     *)
(*            users, loaded and last                                       *)
(***************************************************************************)
VARIABLES heap, arrays, articles, users, ls, now, loaded, nops, last, other

vars == <<heap, arrays, articles, users, ls, now, loaded, nops, last, other>>

\* The array references of INITIAL_DATA.articles and INITIAL_DATA.users
SeedArticlesArr == 1
SeedUsersArr == 2

\* The smallest n references not used in the function h
RECURSIVE FreshFrom(_, _, _)
FreshFrom(used, n, k) ==
  IF n = 0 THEN << >>
  ELSE IF k \in used THEN FreshFrom(used, n, k + 1)
  ELSE <<k>> \o FreshFrom(used, n - 1, k + 1)

Fresh(h, n) == FreshFrom(DOMAIN h, n, 1)

\* h with the objects vals allocated at the references refs
RECURSIVE Alloc(_, _, _)
Alloc(h, refs, vals) ==
  IF refs = << >> THEN h
  ELSE Alloc((Head(refs) :> Head(vals)) @@ h, Tail(refs), Tail(vals))

\* h with reference r bound to v
Bind(h, r, v) == (r :> v) @@ h

\* the records an array holds, by value and in order
Deref(h, as, arr) == [i \in 1..Len(as[arr]) |-> h[as[arr][i]]]

(***************************************************************************)
(* localStorage values.  A stored text is absent, unparseable, the JSON of *)
(* something that is not an array, or the JSON of an array of objects.     *)
(***************************************************************************)
LsAbsent == [kind |-> "absent", items |-> << >>]
LsGarbage == [kind |-> "garbage", items |-> << >>]
LsScalar == [kind |-> "scalar", items |-> << >>]
LsArray(items) == [kind |-> "array", items |-> items]

\* JSON.stringify of one object: a property whose value is undefined is
\* left out, NaN is written as null
JsonObject(o) ==
  [k \in {f \in DOMAIN o : o[f] # Undef} |-> IF o[k] = NaN THEN Null ELSE o[k]]

\* JSON.stringify(array)
Stringify(h, as, arr) ==
  LsArray([i \in 1..Len(as[arr]) |-> JsonObject(h[as[arr][i]])])

\* Mutant of saveToLocalStorage: a collection already in the store is never
\* overwritten
saveKeepingStored(h, as, a, u, store, okA, okU) ==
  [articles |-> IF okA /\ store.articles.kind # "array"
                THEN Stringify(h, as, a) ELSE store.articles,
   users |-> IF okU /\ store.users.kind # "array"
             THEN Stringify(h, as, u) ELSE store.users]

\* localStorage after saveToLocalStorage(): the two writes are made one
\* after the other, each succeeds (okA, okU) or fails on its own, and a
\* failed setItem leaves the key as it was
saveToLocalStorage(h, as, a, u, store, okA, okU) ==
  [articles |-> IF okA THEN Stringify(h, as, a) ELSE store.articles,
   users |-> IF okU THEN Stringify(h, as, u) ELSE store.users]

\* safeLocalStorageGet(key, fallback) followed by the Array.isArray test of
\* loadFromLocalStorage: TRUE when the stored text yields an array.  An
\* absent or empty text, a text that does not parse and a parsed value that
\* is not an array all end in the fallback.
LoadsArray(text) == text.kind = "array"

(***************************************************************************)
(* StorageUtils.generateUniqueId                                           *)
(***************************************************************************)
\* The double nearest to Epoch * 10000 + k: an even k is exact, an odd k
\* is a tie between its two even neighbours and goes to the one whose
\* mantissa is even (Epoch * 10000 is a multiple of 16)
RoundDouble(k) ==
  IF k % 2 = 0 THEN k
  ELSE IF ((k - 1) \div 2) % 2 = 0 THEN k - 1 ELSE k + 1

\* Mutant of UniqueIdLoop: the candidate is returned without the check
UniqueIdNoLoop(existingIds, k) == Big(k)

\* while (existingIds.includes(newId)) newId++
RECURSIVE UniqueIdLoop(_, _)
UniqueIdLoop(existingIds, k) ==
  IF Big(k) \notin existingIds THEN Big(k)
  ELSE IF RoundDouble(k + 1) = k THEN Diverges
  ELSE UniqueIdLoop(existingIds, RoundDouble(k + 1))

generateUniqueId(existingIds, timestamp, random) ==
  UniqueIdLoop(existingIds, RoundDouble(timestamp * IdScale + random))

(***************************************************************************)
(* Getters.  Each returns references to the store's own objects.           *)
(***************************************************************************)
\* the references held by the store's article array, in order
ArticleRefs == arrays[articles]
UserRefs == arrays[users]

\* Array.prototype.find: the first reference of refs among hits, the
\* references whose object satisfies the test; 0 (null) when there is none
FirstWith(refs, hits) ==
  IF \E i \in 1..Len(refs) : refs[i] \in hits
  THEN refs[CHOOSE i \in 1..Len(refs) :
              refs[i] \in hits /\ \A j \in 1..(i - 1) : refs[j] \notin hits]
  ELSE 0

\* Mutant of getArticleById: the id is compared as it was passed
getArticleByIdExact(h, refs, id) ==
  FirstWith(refs, {r \in DOMAIN h : Get(h[r], "id") = id})

\* getArticleById(id) over the heap h and the article references refs
getArticleById(h, refs, id) ==
  LET articleId == ParseInt(id)
      Match == {r \in DOMAIN h : Get(h[r], "id") = articleId}
  IN IF articleId = NaN THEN 0 ELSE FirstWith(refs, Match)

(***************************************************************************)
(* Results of the write operations: the heap, the arrays, the two          *)
(* collections and the storage a call leaves, its return value (ok) and    *)
(* the record it touched (ref).                                            *)
(***************************************************************************)
Result(h, as, a, u, store, ok, ref, saved) ==
  [h |-> h, as |-> as, a |-> a, u |-> u, ls |-> store, ok |-> ok, ref |-> ref,
   saved |-> saved]

\* a call that returns early, before it changed anything
NoChange == Result(heap, arrays, articles, users, ls, FALSE, 0, FALSE)

\* array.push(r) and array.pop() on the referenced array
Push(as, arr, r) == [as EXCEPT ![arr] = Append(@, r)]
Pop(as, arr) == [as EXCEPT ![arr] = SubSeq(@, 1, Len(@) - 1)]

\* The record addArticle builds: defaults, then the caller's data, then
\* the store's timestamp
NewArticle(newId, articleData) ==
  Merge(Merge([id |-> newId, views |-> Num(0), engagement |-> Num(0),
               publishDate |-> Null], articleData),
        [createdAt |-> Iso(now)])

\* Mutant of AddRollback: the appended record is left in the array
AddRollbackMissing(as) == as

\* Mutant of AddRollback: the pop is made on the users array
AddRollbackPopsUsers(as) == Pop(as, users)

\* The rollback of addArticle: this.articles.pop()
AddRollback(as) == Pop(as, articles)

\* this.articles.map(a => a.id), as the set of its values
ExistingIds == {Get(heap[ArticleRefs[i]], "id") : i \in 1..Len(ArticleRefs)}

addArticle(articleData, random, okA, okU) ==
  IF ~isValidArticle(articleData) THEN NoChange
  ELSE
    LET newId == generateUniqueId(ExistingIds, now, random)
        o == Fresh(heap, 1)[1]
        h1 == Bind(heap, o, NewArticle(newId, articleData))
        as1 == Push(arrays, articles, o)
        ls1 == saveToLocalStorage(h1, as1, articles, users, ls, okA, okU)
    IN IF okA /\ okU
       THEN Result(h1, as1, articles, users, ls1, TRUE, o, TRUE)
       ELSE Result(h1, AddRollback(as1), articles, users, ls1, FALSE, 0, TRUE)

\* TRUE when the id loop of addArticle(articleData) never ends
addArticleDiverges(articleData, random) ==
  /\ isValidArticle(articleData)
  /\ generateUniqueId(ExistingIds, now, random) = Diverges

\* The rollback of updateArticle: Object.assign(article, backup) writes
\* the snapshot's properties back onto the live record
UpdateRollback(article, backup) == Merge(article, backup)

updateArticle(articleId, updates, okA, okU) ==
  LET parsedId == ParseInt(articleId)
      o == getArticleById(heap, ArticleRefs, parsedId)
  IN IF parsedId = NaN \/ o = 0 THEN NoChange
     ELSE
       LET sanitizedUpdates == sanitizeArticleUpdates(updates)
           backup == heap[o]
           updated == Merge(Merge(heap[o], sanitizedUpdates),
                            [updatedAt |-> Iso(now)])
           h1 == [heap EXCEPT ![o] = updated]
           hBack == [heap EXCEPT ![o] = UpdateRollback(updated, backup)]
           ls1 == saveToLocalStorage(h1, arrays, articles, users, ls, okA, okU)
       IN IF ~isValidArticle(updated)
          THEN Result(hBack, arrays, articles, users, ls, FALSE, o, FALSE)
          ELSE IF okA /\ okU
          THEN Result(h1, arrays, articles, users, ls1, TRUE, o, TRUE)
          ELSE Result(hBack, arrays, articles, users, ls1, FALSE, o, TRUE)

\* Mutant of WithStatus: publishing stamps today's date on every call
WithStatusRedated(article, newStatus) ==
  LET a1 == Merge(article, [status |-> newStatus])
  IN IF newStatus = PUBLISHED
     THEN Merge(a1, [publishDate |-> DateOnly(now)])
     ELSE a1

\* The record updateArticleStatus leaves before it saves: the new status,
\* and today's date as publishDate when publishing a record without one
WithStatus(article, newStatus) ==
  LET a1 == Merge(article, [status |-> newStatus])
  IN IF newStatus = PUBLISHED /\ ~Truthy(Get(a1, "publishDate"))
     THEN Merge(a1, [publishDate |-> DateOnly(now)])
     ELSE a1

\* Mutant of StatusRollback: the rollback also takes the publishDate away
StatusRollbackClearsDate(article, oldStatus) ==
  Merge(article, [status |-> oldStatus, publishDate |-> Null])

\* The rollback of updateArticleStatus: article.status = oldStatus
StatusRollback(article, oldStatus) == Merge(article, [status |-> oldStatus])

updateArticleStatus(articleId, newStatus, okA, okU) ==
  LET o == getArticleById(heap, ArticleRefs, articleId)
  IN IF newStatus \notin ARTICLE_STATUS \/ o = 0 THEN NoChange
     ELSE
       LET oldStatus == Get(heap[o], "status")
           h1 == [heap EXCEPT ![o] = WithStatus(@, newStatus)]
           hBack == [h1 EXCEPT ![o] = StatusRollback(@, oldStatus)]
           ls1 == saveToLocalStorage(h1, arrays, articles, users, ls, okA, okU)
       IN IF okA /\ okU
          THEN Result(h1, arrays, articles, users, ls1, TRUE, o, TRUE)
          ELSE Result(hBack, arrays, articles, users, ls1, FALSE, o, TRUE)

\* Mutant of InsertAt: the record is put back at the end
InsertAtEnd(seq, index, r) == Append(seq, r)

\* array.splice(index, 1) and array.splice(index, 0, r)
RemoveAt(seq, index) == SubSeq(seq, 1, index - 1) \o SubSeq(seq, index + 1, Len(seq))
InsertAt(seq, index, r) ==
  SubSeq(seq, 1, index - 1) \o <<r>> \o SubSeq(seq, index, Len(seq))

deleteArticle(articleId, okA, okU) ==
  LET parsedId == ParseInt(articleId)
      Match(i) == Get(heap[ArticleRefs[i]], "id") = parsedId
  IN IF parsedId = NaN \/ ~\E i \in 1..Len(ArticleRefs) : Match(i) THEN NoChange
     ELSE
       LET index == CHOOSE i \in 1..Len(ArticleRefs) :
                      Match(i) /\ \A j \in 1..(i - 1) : ~Match(j)
           deletedArticle == ArticleRefs[index]
           as1 == [arrays EXCEPT ![articles] = RemoveAt(@, index)]
           asBack == [as1 EXCEPT ![articles] = InsertAt(@, index, deletedArticle)]
           ls1 == saveToLocalStorage(heap, as1, articles, users, ls, okA, okU)
       IN IF okA /\ okU
          THEN Result(heap, as1, articles, users, ls1, TRUE, deletedArticle, TRUE)
          ELSE Result(heap, asBack, articles, users, ls1, FALSE, deletedArticle, TRUE)

\* A sequence of records allocated in the heap as a new array: the heap,
\* the arrays and the new array's reference
NewArray(h, as, vals) ==
  LET refs == Fresh(h, Len(vals))
      arr == Fresh(as, 1)[1]
  IN [h |-> Alloc(h, refs, vals),
      as |-> (arr :> refs) @@ as,
      arr |-> arr]

\* [...array]: a new array holding the same references
CopyArray(as, src) ==
  LET arr == Fresh(as, 1)[1]
  IN [as |-> (arr :> as[src]) @@ as,
      arr |-> arr]

\* Mutant of ImportRollback: the imported array stays in place
ImportRollbackMissing(backup, imported) == imported

\* The rollback of importData: this.articles = backup.articles, and the
\* same for users
ImportRollback(backup, imported) == backup

\* importData(data).  data.articles and data.users are arrays the caller
\* built; hasArticles / hasUsers tell whether data has the property.
importData(data, okA, okU) ==
  IF ~data.hasArticles \/ ~data.hasUsers THEN NoChange
  ELSE IF ~(\A i \in 1..Len(data.articles) : isValidArticle(data.articles[i]))
          \/ ~(\A i \in 1..Len(data.users) : isValidUser(data.users[i]))
  THEN NoChange
  ELSE
    LET dA == NewArray(heap, arrays, data.articles)
        dU == NewArray(dA.h, dA.as, data.users)
        bA == CopyArray(dU.as, articles)
        bU == CopyArray(bA.as, users)
        ls1 == saveToLocalStorage(dU.h, bU.as, dA.arr, dU.arr, ls, okA, okU)
    IN IF okA /\ okU
       THEN Result(dU.h, bU.as, dA.arr, dU.arr, ls1, TRUE, 0, TRUE)
       ELSE Result(dU.h, bU.as, ImportRollback(bA.arr, dA.arr),
                   ImportRollback(bU.arr, dU.arr), ls1, FALSE, 0, TRUE)

\* clearAllData() once confirmed: both keys removed, both collections set
\* to copies of the INITIAL_DATA arrays, then saved; the result of the
\* save is not looked at
clearAllData(okA, okU) ==
  LET cA == CopyArray(arrays, SeedArticlesArr)
      cU == CopyArray(cA.as, SeedUsersArr)
      removed == [articles |-> LsAbsent, users |-> LsAbsent]
      ls1 == saveToLocalStorage(heap, cU.as, cA.arr, cU.arr, removed, okA, okU)
  IN Result(heap, cU.as, cA.arr, cU.arr, ls1, TRUE, 0, TRUE)

\* loadFromLocalStorage(): a key that yields an array is parsed into new
\* objects; any other key gets the INITIAL_DATA array itself
\* A loader that falls back for both keys as soon as one of them fails
loadBothOrSeed ==
  IF LoadsArray(ls.articles) /\ LoadsArray(ls.users)
  THEN LET pA == NewArray(heap, arrays, ls.articles.items)
           pU == NewArray(pA.h, pA.as, ls.users.items)
       IN Result(pU.h, pU.as, pA.arr, pU.arr, ls, TRUE, 0, FALSE)
  ELSE Result(heap, arrays, SeedArticlesArr, SeedUsersArr, ls, TRUE, 0, FALSE)

loadFromLocalStorage ==
  LET pA == IF LoadsArray(ls.articles)
            THEN NewArray(heap, arrays, ls.articles.items)
            ELSE [h |-> heap, as |-> arrays, arr |-> SeedArticlesArr]
      pU == IF LoadsArray(ls.users)
            THEN NewArray(pA.h, pA.as, ls.users.items)
            ELSE [h |-> pA.h, as |-> pA.as, arr |-> SeedUsersArr]
  IN Result(pU.h, pU.as, pA.arr, pU.arr, ls, TRUE, 0, FALSE)

(***************************************************************************)
(* Getters.                                                                *)
(***************************************************************************)
\* Array.prototype.filter: the references of refs among hits, the
\* references whose object satisfies the test
FilterRefs(refs, hits) == SelectSeq(refs, LAMBDA r : r \in hits)

\* email.toLowerCase().trim() on the texts of the model
LowerTrim(s) == IF s = " Priya@KCC.in" THEN "priya@kcc.in" ELSE s

\* The references a getter returns, as a sequence (empty for null):
\* getArticles() and getUsers() copy the array and keep its references,
\* the others return what find / filter select, exportData() returns the
\* store's arrays themselves
Returned(reader) ==
  LET ByAuthor == {r \in DOMAIN heap : Get(heap[r], "authorId") = ParseInt(Num(1))}
      ByStatus == {r \in DOMAIN heap : Get(heap[r], "status") = PUBLISHED}
      ById == {r \in DOMAIN heap : Get(heap[r], "id") = ParseInt(Str("1"))}
      ByEmail == {r \in DOMAIN heap :
                    Get(heap[r], "email") = Str(LowerTrim(" Priya@KCC.in"))}
      One(ref) == IF ref = 0 THEN << >> ELSE <<ref>>
  IN CASE reader = "getArticles" -> ArticleRefs
       [] reader = "getArticleById" -> One(getArticleById(heap, ArticleRefs, Str("1")))
       [] reader = "getArticlesByAuthor" -> FilterRefs(ArticleRefs, ByAuthor)
       [] reader = "getArticlesByStatus" -> FilterRefs(ArticleRefs, ByStatus)
       [] reader = "exportData" -> ArticleRefs
       [] reader = "getUsers" -> UserRefs
       [] reader = "getUserById" -> One(FirstWith(UserRefs, ById))
       [] reader = "getUserByEmail" -> One(FirstWith(UserRefs, ByEmail))

Readers ==
  {"getArticles", "getArticleById", "getArticlesByAuthor", "getArticlesByStatus",
   "exportData", "getUsers", "getUserById", "getUserByEmail"}

\* The array a getter returns: the store's own array for exportData(),
\* 0 for a getter that returns a new array
ReturnedArray(reader) == IF reader = "exportData" THEN articles ELSE 0

(***************************************************************************)
(* Statistics.                                                             *)
(***************************************************************************)
\* a + b on JavaScript values: a text operand makes it a concatenation,
\* otherwise null counts as 0 and undefined or NaN make the result NaN
Plus(a, b) ==
  IF a.t = "str" \/ b.t = "str" THEN Str("concatenation")
  ELSE IF a.t \in {"undef", "nan"} \/ b.t \in {"undef", "nan"} THEN NaN
  ELSE Num(a.n + b.n)

\* Mutant of OrZero: the value is used as it is
OrZeroMissing(v) == v

\* v || 0
OrZero(v) == IF Truthy(v) THEN v ELSE Num(0)

\* refs.reduce((sum, a) => sum + (a[field] || 0), 0)
RECURSIVE SumField(_, _, _)
SumField(refs, field, sum) ==
  IF refs = << >> THEN sum
  ELSE SumField(Tail(refs), field,
                Plus(sum, OrZero(Get(heap[Head(refs)], field))))

\* refs.filter(a => a[field] === v).length
CountField(refs, field, v) ==
  Num(Len(FilterRefs(refs, {r \in DOMAIN heap : Get(heap[r], field) = v})))

getStats ==
  [totalArticles |-> Num(Len(ArticleRefs)),
   published |-> CountField(ArticleRefs, "status", PUBLISHED),
   review |-> CountField(ArticleRefs, "status", Str("review")),
   draft |-> CountField(ArticleRefs, "status", Str("draft")),
   totalViews |-> SumField(ArticleRefs, "views", Num(0)),
   totalEngagement |-> SumField(ArticleRefs, "engagement", Num(0)),
   totalAuthors |-> CountField(UserRefs, "role", Str("author"))]

\* getArticlesByAuthor(authorId): the references filter selects, none for
\* an id parseInt makes NaN
getArticlesByAuthor(authorId) ==
  LET parsedId == ParseInt(authorId)
  IN IF parsedId = NaN THEN << >>
     ELSE FilterRefs(ArticleRefs,
                     {r \in DOMAIN heap : Get(heap[r], "authorId") = parsedId})

\* Mutant of MathRound: the quotient is cut off, not rounded
MathFloor(total, count) ==
  IF total.t = "num" THEN Num(total.n \div count) ELSE NaN

\* Math.round(total / count) for count > 0: the nearest integer, a half
\* rounded up
MathRound(total, count) ==
  IF total.t = "num" THEN Num((2 * total.n + count) \div (2 * count)) ELSE NaN

_getEmptyAuthorStats ==
  [totalArticles |-> Num(0), published |-> Num(0), totalViews |-> Num(0),
   avgEngagement |-> Num(0)]

getAuthorStats(authorId) ==
  LET parsedId == ParseInt(authorId)
      mine == getArticlesByAuthor(parsedId)
      totalViews == SumField(mine, "views", Num(0))
      totalEngagement == SumField(mine, "engagement", Num(0))
  IN IF parsedId = NaN THEN _getEmptyAuthorStats
     ELSE [totalArticles |-> Num(Len(mine)),
           published |-> CountField(mine, "status", PUBLISHED),
           totalViews |-> totalViews,
           avgEngagement |-> IF Len(mine) > 0
                             THEN MathRound(totalEngagement, Len(mine))
                             ELSE Num(0)]

\* author ids a caller passes: authors of the seed, an id no article has,
\* the text of a number and a text that is no number
AuthorIdInputs == {Num(1), Num(2), Num(99), Str("1"), Str("abc")}

(***************************************************************************)
(* Inputs.                                                                 *)
(***************************************************************************)
ValidData ==
  [title |-> Str("T"), category |-> Str("C"), summary |-> Str("S"),
   content |-> Str("B"), author |-> Str("A"), authorId |-> Num(1),
   status |-> Str("draft")]
DataWithId == Merge(ValidData, [id |-> Num(1), createdAt |-> Str("client")])
DataNoContent == Restrict(ValidData, RequiredArticleFields \ {"content"})
DataBadStatus == Merge(ValidData, [status |-> Str("archived")])
DataTextAuthorId == Merge(ValidData, [authorId |-> Str("1")])
DataUndefContent == Merge(ValidData, [content |-> Undef])

ArticleInputs ==
  {ValidData, DataWithId, DataNoContent, DataBadStatus, DataTextAuthorId}

UpdEvil ==
  [id |-> Num(999), evil |-> Str("x"), title |-> Str("New"), image |-> Str("pic"),
   author |-> Str("M"), authorId |-> Num(7), createdAt |-> Str("client"),
   views |-> Undef]
UpdBadStatus == [status |-> Str("archived"), title |-> Str("New")]
UpdPublish == [status |-> PUBLISHED]

UpdateInputs == {UpdEvil, UpdBadStatus, UpdPublish}

\* values of Math.floor(Math.random() * 10000)
RandomInputs == {0, 2}

StatusInputs == {Str("draft"), PUBLISHED, Str("archived")}

\* ids a caller passes: a number, a text that is no number, and the ids the
\* store generated
IdInputs ==
  {Num(1), Str("abc")}
  \cup {v \in ExistingIds : v.s = "big"}

StoredUser ==
  [id |-> Num(1), name |-> Str("P"), email |-> Str("priya@kcc.in"),
   role |-> Str("author")]
StoredArticle == Merge(ValidData, [id |-> Num(1), views |-> Num(3)])
\* a stored record that is no article: it has a title only
StoredTitleOnly == [title |-> Str("T")]

ImportGood ==
  [hasArticles |-> TRUE, hasUsers |-> TRUE,
   articles |-> <<Merge(ValidData, [id |-> Num(8)])>>, users |-> <<StoredUser>>]
ImportBadArticle ==
  [ImportGood EXCEPT !.articles = <<Merge(ValidData, [id |-> Num(8)]), DataNoContent>>]
ImportBadUser ==
  [ImportGood EXCEPT !.users = <<StoredUser, [id |-> Num(2), name |-> Str("N")]>>]
ImportNoUsers == [ImportGood EXCEPT !.hasUsers = FALSE, !.users = << >>]

ImportInputs == {ImportGood, ImportBadArticle, ImportBadUser, ImportNoUsers}

\* what localStorage may hold when the page loads
InitialTexts ==
  {[articles |-> ta, users |-> tu] :
     ta \in {LsAbsent, LsArray(<<StoredArticle>>)},
     tu \in {LsAbsent, LsArray(<<StoredUser>>)}}
  \cup {[articles |-> ta, users |-> LsAbsent] :
           ta \in {LsGarbage, LsScalar, LsArray(<<StoredTitleOnly>>)}}

(***************************************************************************)
(* Actions.                                                                *)
(***************************************************************************)
\* The call just made: its name, its arguments, its result, whether it got
\* as far as saveToLocalStorage() and, if it did, how the two writes went
Call(op, res, id, data, okA, okU) ==
  [op |-> op, ok |-> res.ok, ref |-> res.ref, saved |-> res.saved,
   id |-> id, data |-> data,
   okA |-> res.saved /\ okA, okU |-> res.saved /\ okU]

NoObject == [x \in {} |-> Null]

\* No second page is open
NoTab == [open |-> FALSE]

\* The arrays the second page's DATA_STORE holds
OtherArrays == IF other.open THEN {other.articles, other.users} ELSE {}

\* The state a call leaves.  Objects and arrays that nothing refers to any
\* more are dropped from the heap.
Commit(res) ==
  LET liveArrs == {SeedArticlesArr, SeedUsersArr, res.a, res.u} \cup OtherArrays
      liveObjs == UNION {{res.as[x][i] : i \in 1..Len(res.as[x])} : x \in liveArrs}
  IN /\ arrays' = [x \in liveArrs |-> res.as[x]]
     /\ heap' = [r \in liveObjs |-> res.h[r]]
     /\ articles' = res.a
     /\ users' = res.u
     /\ ls' = res.ls

Ready == loaded /\ nops < MaxOps /\ last.op # "hang"

InitMemory ==
  /\ heap = [r \in 1..(Len(InitialArticles) + Len(InitialUsers)) |->
               IF r <= Len(InitialArticles) THEN InitialArticles[r]
               ELSE InitialUsers[r - Len(InitialArticles)]]
  /\ arrays = [x \in 1..4 |->
                 CASE x = SeedArticlesArr -> [i \in 1..Len(InitialArticles) |-> i]
                   [] x = SeedUsersArr ->
                        [i \in 1..Len(InitialUsers) |-> Len(InitialArticles) + i]
                   [] OTHER -> << >>]
  /\ articles = 3
  /\ users = 4
  /\ now = 1
  /\ loaded = FALSE
  /\ nops = 0
  /\ last = Call("none", NoChange, Undef, NoObject, FALSE, FALSE)

Init ==
  /\ ls \in InitialTexts
  /\ other = NoTab
  /\ InitMemory

\* DATA_STORE.init(): run once when the script loads, and callable again
InitStore ==
  /\ loaded => Ready
  /\ LET res == loadFromLocalStorage
     IN /\ Commit(res)
        /\ last' = Call("init", res, Undef, NoObject, FALSE, FALSE)
  /\ loaded' = TRUE
  /\ nops' = IF loaded THEN nops + 1 ELSE nops
  /\ UNCHANGED <<now, other>>

AddArticle ==
  /\ Ready
  /\ \E data \in ArticleInputs :
       IF ~isValidArticle(data)
       THEN /\ last' = Call("addArticle", NoChange, Undef, data, FALSE, FALSE)
            /\ UNCHANGED <<heap, arrays, articles, users, ls>>
       ELSE \E random \in RandomInputs :
              IF addArticleDiverges(data, random)
              THEN /\ last' = Call("hang", NoChange, Undef, data, FALSE, FALSE)
                   /\ UNCHANGED <<heap, arrays, articles, users, ls>>
              ELSE \E okA, okU \in BOOLEAN :
                     LET res == addArticle(data, random, okA, okU)
                     IN /\ Commit(res)
                        /\ last' = Call("addArticle", res, Undef, data, okA, okU)
  /\ nops' = nops + 1
  /\ UNCHANGED <<now, loaded, other>>

\* A call that returns before saveToLocalStorage() has one outcome; a call
\* that reaches it has one for each way the two writes can go
UpdateArticle ==
  /\ Ready
  /\ \E id \in IdInputs, updates \in UpdateInputs :
       LET early == updateArticle(id, updates, TRUE, TRUE)
       IN IF ~early.saved
          THEN /\ Commit(early)
               /\ last' = Call("updateArticle", early, id, updates, FALSE, FALSE)
          ELSE \E okA, okU \in BOOLEAN :
                 LET res == updateArticle(id, updates, okA, okU)
                 IN /\ Commit(res)
                    /\ last' = Call("updateArticle", res, id, updates, okA, okU)
  /\ nops' = nops + 1
  /\ UNCHANGED <<now, loaded, other>>

UpdateArticleStatus ==
  /\ Ready
  /\ \E id \in IdInputs \cup {Str("1")}, newStatus \in StatusInputs :
       LET early == updateArticleStatus(id, newStatus, TRUE, TRUE)
       IN IF ~early.saved
          THEN /\ Commit(early)
               /\ last' = Call("updateArticleStatus", early, id, [status |-> newStatus], FALSE, FALSE)
          ELSE \E okA, okU \in BOOLEAN :
                 LET res == updateArticleStatus(id, newStatus, okA, okU)
                 IN /\ Commit(res)
                    /\ last' = Call("updateArticleStatus", res, id, [status |-> newStatus], okA, okU)
  /\ nops' = nops + 1
  /\ UNCHANGED <<now, loaded, other>>

DeleteArticle ==
  /\ Ready
  /\ \E id \in IdInputs :
       LET early == deleteArticle(id, TRUE, TRUE)
       IN IF ~early.saved
          THEN /\ Commit(early)
               /\ last' = Call("deleteArticle", early, id, NoObject, FALSE, FALSE)
          ELSE \E okA, okU \in BOOLEAN :
                 LET res == deleteArticle(id, okA, okU)
                 IN /\ Commit(res)
                    /\ last' = Call("deleteArticle", res, id, NoObject, okA, okU)
  /\ nops' = nops + 1
  /\ UNCHANGED <<now, loaded, other>>

ImportData ==
  /\ Ready
  /\ \E data \in ImportInputs :
       LET early == importData(data, TRUE, TRUE)
       IN IF ~early.saved
          THEN /\ Commit(early)
               /\ last' = Call("importData", early, Undef, data, FALSE, FALSE)
          ELSE \E okA, okU \in BOOLEAN :
                 LET res == importData(data, okA, okU)
                 IN /\ Commit(res)
                    /\ last' = Call("importData", res, Undef, data, okA, okU)
  /\ nops' = nops + 1
  /\ UNCHANGED <<now, loaded, other>>

\* clearAllData(): confirmed is the answer to the confirm() dialog
ClearAllData ==
  /\ Ready
  /\ \E confirmed \in BOOLEAN :
       IF confirmed
       THEN \E okA, okU \in BOOLEAN :
              LET res == clearAllData(okA, okU)
              IN /\ Commit(res)
                 /\ last' = Call("clearAllData", res, Undef, NoObject, okA, okU)
       ELSE /\ last' = Call("clearAllData", NoChange, Undef, NoObject, FALSE, FALSE)
            /\ UNCHANGED <<heap, arrays, articles, users, ls>>
  /\ nops' = nops + 1
  /\ UNCHANGED <<now, loaded, other>>

\* The caller assigns to a property of the first record a getter returned:
\* title for an article, name for a user
CallerWritesRecord ==
  /\ Ready
  /\ \E reader \in Readers :
       LET refs == Returned(reader)
           field == IF reader \in {"getUsers", "getUserById", "getUserByEmail"}
                    THEN "name" ELSE "title"
           h1 == IF refs = << >> THEN heap
                 ELSE [heap EXCEPT ![refs[1]] = Merge(@, field :> Str("edited"))]
       IN /\ Commit(Result(h1, arrays, articles, users, ls, refs # << >>,
                           IF refs = << >> THEN 0 ELSE refs[1], FALSE))
          /\ last' = [op |-> "callerWritesRecord", ok |-> refs # << >>,
                      ref |-> IF refs = << >> THEN 0 ELSE refs[1], saved |-> FALSE,
                      id |-> Undef, data |-> NoObject,
                      okA |-> FALSE, okU |-> FALSE]
  /\ nops' = nops + 1
  /\ UNCHANGED <<now, loaded, other>>

\* The caller calls pop() on the array a getter returned
CallerPopsArray ==
  /\ Ready
  /\ \E reader \in {"getArticles", "exportData"} :
       LET arr == ReturnedArray(reader)
           as1 == IF arr = 0 \/ arrays[arr] = << >> THEN arrays ELSE Pop(arrays, arr)
       IN /\ Commit(Result(heap, as1, articles, users, ls, TRUE, 0, FALSE))
          /\ last' = [op |-> "callerPopsArray", ok |-> TRUE, ref |-> 0,
                      saved |-> FALSE, id |-> Undef,
                      data |-> NoObject, okA |-> FALSE, okU |-> FALSE]
  /\ nops' = nops + 1
  /\ UNCHANGED <<now, loaded, other>>

\* Time passes between two calls.  The clock reads 1 at the first call.
Tick ==
  /\ Ready /\ nops > 0 /\ now < MaxClock
  /\ now' = now + 1
  /\ UNCHANGED <<heap, arrays, articles, users, ls, loaded, nops, last, other>>

Next ==
  \/ InitStore
  \/ AddArticle
  \/ UpdateArticle
  \/ UpdateArticleStatus
  \/ DeleteArticle
  \/ ImportData
  \/ ClearAllData
  \/ CallerWritesRecord
  \/ CallerPopsArray
  \/ Tick

Spec == Init /\ [][Next]_vars

(***************************************************************************)
(* Two pages open on the same origin.  Each has loaded the script, so each *)
(* has its own DATA_STORE; localStorage is the one thing they share.  The  *)
(* page whose script is running has its DATA_STORE in articles, users,     *)
(* loaded and last, the page that waits has its own in other.  Scripts of  *)
(* the two pages run one call at a time, in any order.                     *)
(***************************************************************************)
\* Both pages start from a store that holds an article and a user
TabsInit ==
  /\ ls = [articles |-> LsArray(<<StoredArticle>>), users |-> LsArray(<<StoredUser>>)]
  /\ InitMemory
  /\ other = [open |-> TRUE, articles |-> articles, users |-> users,
              loaded |-> loaded, last |-> last]

\* The waiting page gets to run its next call
SwitchTab ==
  /\ other.open
  /\ articles' = other.articles
  /\ users' = other.users
  /\ loaded' = other.loaded
  /\ last' = other.last
  /\ other' = [open |-> TRUE, articles |-> articles, users |-> users,
               loaded |-> loaded, last |-> last]
  /\ UNCHANGED <<heap, arrays, ls, now, nops>>

TabsNext ==
  \/ InitStore
  \/ AddArticle
  \/ UpdateArticle
  \/ DeleteArticle
  \/ SwitchTab

TabsSpec == TabsInit /\ [][TabsNext]_vars

(***************************************************************************)
(* magic-link.js: the pending-token table kept in localStorage under       *)
(* AUTH_STORAGE.PENDING_TOKENS.  This script does not use DATA_STORE: of   *)
(* the state only ls (the token table), now, nops and last are in play.    *)
(* In last, valids[t] counts the verifyToken(t) calls that returned valid, *)
(* and armed[t] counts those among them made since t was last saved.       *)
(***************************************************************************)
MaxCalls == 4
MaxLate == 2

\* The clock is looked at shortly after it starts and again a period later
Instants(period) == UNION {{k, k + period} : k \in 1..MaxLate}

storeVars == <<heap, arrays, articles, users, loaded, other>>

NoStore ==
  /\ heap = << >>
  /\ arrays = << >>
  /\ articles = 0
  /\ users = 0
  /\ loaded = FALSE
  /\ other = NoTab

TOKEN_EXPIRY == 15 * 60 * 1000

TokenInputs == {"ml_a", "ml_b"}

\* JSON.parse(localStorage.getItem(key) || '{}') when the key is absent
EmptyTable == [t \in {} |-> Null]

\* table with entry as the value of key
Assign(table, key, entry) ==
  [t \in DOMAIN table \cup {key} |-> IF t = key THEN entry ELSE table[t]]

saveToken(tokens, email, token) ==
  Assign(tokens, token,
         [email |-> email, createdAt |-> now, expiresAt |-> now + TOKEN_EXPIRY,
          used |-> FALSE])

\* Mutant of verifyToken: a valid token is not marked used
verifyTokenLeavesUnused(tokens, token) ==
  IF token \notin DOMAIN tokens
  THEN [valid |-> FALSE, reason |-> "Token not found", tokens |-> tokens]
  ELSE IF tokens[token].used
  THEN [valid |-> FALSE, reason |-> "Token already used", tokens |-> tokens]
  ELSE IF now > tokens[token].expiresAt
  THEN [valid |-> FALSE, reason |-> "Token expired", tokens |-> tokens]
  ELSE [valid |-> TRUE, reason |-> tokens[token].email, tokens |-> tokens]

\* Mutant of verifyToken: the token is marked used before its expiry is
\* looked at
verifyTokenMarksFirst(tokens, token) ==
  IF token \notin DOMAIN tokens
  THEN [valid |-> FALSE, reason |-> "Token not found", tokens |-> tokens]
  ELSE IF tokens[token].used
  THEN [valid |-> FALSE, reason |-> "Token already used", tokens |-> tokens]
  ELSE [valid |-> ~(now > tokens[token].expiresAt),
        reason |-> IF now > tokens[token].expiresAt THEN "Token expired"
                   ELSE tokens[token].email,
        tokens |-> [tokens EXCEPT ![token].used = TRUE]]

\* verifyToken(token) over the parsed table: what it returns (reason holds
\* the email of a valid result) and the table it writes back
verifyToken(tokens, token) ==
  IF token \notin DOMAIN tokens
  THEN [valid |-> FALSE, reason |-> "Token not found", tokens |-> tokens]
  ELSE IF tokens[token].used
  THEN [valid |-> FALSE, reason |-> "Token already used", tokens |-> tokens]
  ELSE IF now > tokens[token].expiresAt
  THEN [valid |-> FALSE, reason |-> "Token expired", tokens |-> tokens]
  ELSE [valid |-> TRUE, reason |-> tokens[token].email,
        tokens |-> [tokens EXCEPT ![token].used = TRUE]]

\* The setInterval callback: every entry past its expiry is deleted
cleanupExpired(tokens) ==
  [t \in {u \in DOMAIN tokens : ~(now > tokens[u].expiresAt)} |-> tokens[t]]

TokInit ==
  /\ NoStore
  /\ ls = [tokens |-> EmptyTable]
  /\ now = 1
  /\ nops = 0
  /\ last = [op |-> "none", token |-> "", valid |-> FALSE, reason |-> "",
             valids |-> [t \in TokenInputs |-> 0],
             armed |-> [t \in TokenInputs |-> 0]]

\* saveToken(email, token); wrote is whether localStorage.setItem went
\* through (it throws when the quota is reached)
SaveToken ==
  /\ nops < MaxCalls
  /\ \E token \in TokenInputs, wrote \in BOOLEAN :
       /\ ls' = IF wrote THEN [tokens |-> saveToken(ls.tokens, "reader@kcc.in", token)]
                ELSE ls
       /\ last' = [last EXCEPT !.op = "saveToken", !.token = token,
                     !.valid = FALSE, !.reason = IF wrote THEN "" ELSE "throws",
                     !.armed[token] = IF wrote THEN 0 ELSE @]
  /\ nops' = nops + 1
  /\ UNCHANGED now
  /\ UNCHANGED storeVars

\* verifyToken(token), as called by handleMagicLinkClick and checkForToken.
\* When setItem throws, the call ends in the exception and returns nothing.
VerifyToken ==
  /\ nops < MaxCalls
  /\ \E token \in TokenInputs, wrote \in BOOLEAN :
       LET res == verifyToken(ls.tokens, token)
       IN IF res.valid /\ ~wrote
          THEN /\ ls' = ls
               /\ last' = [last EXCEPT !.op = "verifyToken", !.token = token,
                             !.valid = FALSE, !.reason = "throws"]
          ELSE /\ ls' = [tokens |-> res.tokens]
               /\ last' = [last EXCEPT !.op = "verifyToken", !.token = token,
                             !.valid = res.valid, !.reason = res.reason,
                             !.valids[token] = IF res.valid THEN @ + 1 ELSE @,
                             !.armed[token] = IF res.valid THEN @ + 1 ELSE @]
  /\ nops' = nops + 1
  /\ UNCHANGED now
  /\ UNCHANGED storeVars

\* The cleanup interval fires; it writes only when it deleted something
CleanupExpired ==
  /\ cleanupExpired(ls.tokens) # ls.tokens
  /\ \E wrote \in BOOLEAN :
       ls' = IF wrote THEN [tokens |-> cleanupExpired(ls.tokens)] ELSE ls
  /\ UNCHANGED <<now, nops, last>>
  /\ UNCHANGED storeVars

\* Time passes
TokElapse ==
  /\ \E t \in Instants(TOKEN_EXPIRY) : t > now /\ now' = t
  /\ UNCHANGED <<ls, nops, last>>
  /\ UNCHANGED storeVars

TokNext ==
  \/ SaveToken
  \/ VerifyToken
  \/ CleanupExpired
  \/ TokElapse

TokSpec == TokInit /\ [][TokNext]_vars

(***************************************************************************)
(* subscribe.js and confirm.js: the subscription table kept in             *)
(* localStorage under 'kcc_pending_subscriptions'.  ls holds the table.    *)
(* In last, at is the clock reading of the call, succ[t] counts the visits *)
(* with token t that ended in the success state, and fresh[t] counts those *)
(* among them made since a subscription was last saved under t by          *)
(* handleSubscription.                                                     *)
(***************************************************************************)
\* "This link is valid for 48 hours", in milliseconds
LinkValidity == 48 * 60 * 60 * 1000

\* results of generateToken()
SubTokenInputs == {"sub_a", "sub_b"}

\* saveSubscription(subscription), the same in both scripts
saveSubscription(subs, subscription) ==
  Assign(subs, subscription.token, subscription)

\* getSubscriptionByToken(token): undefined when there is none
getSubscriptionByToken(subs, token) ==
  IF token \in DOMAIN subs THEN subs[token] ELSE Undef

\* The subscription handleSubscription builds
NewSubscription(token, email) ==
  [token |-> token, email |-> email, subscribedAt |-> Iso(now),
   confirmed |-> FALSE]

\* Mutant of verifyConfirmationToken: a subscription that is already
\* confirmed is confirmed again
verifyConfirmationTokenAgain(subs, token) ==
  IF token = "" THEN [shown |-> "errorState", subs |-> subs]
  ELSE LET subscription == getSubscriptionByToken(subs, token)
       IN IF subscription # Undef
          THEN [shown |-> "successState",
                subs |-> saveSubscription(subs,
                           Merge(subscription, [confirmed |-> TRUE,
                                                confirmedAt |-> Iso(now)]))]
          ELSE [shown |-> "errorState", subs |-> subs]

\* verifyConfirmationToken() with the token of the page's URL ("" when the
\* URL has none): the state it shows and the table it leaves
verifyConfirmationToken(subs, token) ==
  IF token = "" THEN [shown |-> "errorState", subs |-> subs]
  ELSE LET subscription == getSubscriptionByToken(subs, token)
       IN IF subscription # Undef /\ ~subscription.confirmed
          THEN [shown |-> "successState",
                subs |-> saveSubscription(subs,
                           Merge(subscription, [confirmed |-> TRUE,
                                                confirmedAt |-> Iso(now)]))]
          ELSE [shown |-> "errorState", subs |-> subs]

SubInit ==
  /\ NoStore
  /\ ls = [subs |-> EmptyTable]
  /\ now = 1
  /\ nops = 0
  /\ last = [op |-> "none", token |-> "", shown |-> "", at |-> 1,
             succ |-> [t \in SubTokenInputs |-> 0],
             fresh |-> [t \in SubTokenInputs |-> 0]]

\* The form is submitted.  With no interest ticked it is turned down; else
\* the subscription is saved under a generated token.  wrote is whether
\* localStorage.setItem went through.
HandleSubscription ==
  /\ nops < MaxCalls
  /\ \E interests \in {0, 1}, token \in SubTokenInputs, wrote \in BOOLEAN :
       IF interests = 0
       THEN /\ ls' = ls
            /\ last' = [last EXCEPT !.op = "handleSubscription", !.token = "",
                          !.shown = "alert", !.at = now]
       ELSE /\ ls' = IF wrote
                     THEN [subs |-> saveSubscription(ls.subs,
                                      NewSubscription(token, "reader@kcc.in"))]
                     ELSE ls
            /\ last' = [last EXCEPT !.op = "handleSubscription", !.token = token,
                          !.shown = IF wrote THEN "successMessage" ELSE "throws",
                          !.at = now,
                          !.fresh[token] = IF wrote THEN 0 ELSE @]
  /\ nops' = nops + 1
  /\ UNCHANGED now
  /\ UNCHANGED storeVars

\* confirm.html is opened and the timer callback of verifyConfirmationToken
\* runs.  When setItem throws, the callback ends there and the page stays
\* in its loading state.
VerifyConfirmationToken ==
  /\ nops < MaxCalls
  /\ \E token \in SubTokenInputs \cup {""}, wrote \in BOOLEAN :
       LET res == verifyConfirmationToken(ls.subs, token)
       IN IF res.shown = "successState" /\ ~wrote
          THEN /\ ls' = ls
               /\ last' = [last EXCEPT !.op = "verifyConfirmationToken",
                             !.token = token, !.shown = "loadingState",
                             !.at = now]
          ELSE /\ ls' = [subs |-> res.subs]
               /\ last' = [op |-> "verifyConfirmationToken", token |-> token,
                           shown |-> res.shown, at |-> now,
                           succ |-> [t \in SubTokenInputs |->
                                       IF t = token /\ res.shown = "successState"
                                       THEN last.succ[t] + 1 ELSE last.succ[t]],
                           fresh |-> [t \in SubTokenInputs |->
                                        IF t = token /\ res.shown = "successState"
                                        THEN last.fresh[t] + 1 ELSE last.fresh[t]]]
  /\ nops' = nops + 1
  /\ UNCHANGED now
  /\ UNCHANGED storeVars

\* Time passes
SubElapse ==
  /\ \E t \in Instants(LinkValidity) : t > now /\ now' = t
  /\ UNCHANGED <<ls, nops, last>>
  /\ UNCHANGED storeVars

SubNext ==
  \/ HandleSubscription
  \/ VerifyConfirmationToken
  \/ SubElapse

SubSpec == SubInit /\ [][SubNext]_vars

(***************************************************************************)
(* The collections as a reader sees them, and as they are persisted.       *)
(***************************************************************************)
MemArticles == Deref(heap, arrays, articles)
MemUsers == Deref(heap, arrays, users)

\* localStorage holds exactly the in-memory collections
InSync ==
  /\ ls.articles = LsArray(MemArticles)
  /\ ls.users = LsArray(MemUsers)

\* This step is a completed call of op
Called(op) == nops' = nops + 1 /\ last'.op = op

WriteOps ==
  {"addArticle", "updateArticle", "updateArticleStatus", "deleteArticle", "importData"}

(***************************************************************************)
(* C1: from a state where the persisted collections equal the in-memory     *)
(* ones, every completed addArticle, updateArticle, updateArticleStatus,    *)
(* deleteArticle or importData leaves them equal again, however the two     *)
(* storage writes go.                                                       *)
(***************************************************************************)
C1_NeverDiverge ==
  [][(InSync /\ \E op \in WriteOps : Called(op)) => InSync']_vars

(***************************************************************************)
(* C2: when persistence fails during updateArticle, the call returns false *)
(* and the record is exactly what it was: no value changed, no property    *)
(* added.                                                                  *)
(***************************************************************************)
C2_UpdateRollbackExact ==
  [][(Called("updateArticle") /\ last'.saved /\ ~(last'.okA /\ last'.okU))
       => (~last'.ok /\ heap'[last'.ref] = heap[last'.ref])]_vars

(***************************************************************************)
(* C3: the record a successful addArticle stores carries the id the store  *)
(* generated and the store's timestamp, never a value the caller supplied. *)
(***************************************************************************)
C3_SystemAssigned ==
  [][(Called("addArticle") /\ last'.ok)
       => /\ heap'[last'.ref]["id"] \in
               {generateUniqueId(ExistingIds, now, r) : r \in RandomInputs}
          /\ heap'[last'.ref]["createdAt"] = Iso(now)]_vars

(***************************************************************************)
(* C4: once the store is loaded, every article held in memory passes the   *)
(* article shape check.                                                    *)
(***************************************************************************)
C4_ArticlesValid ==
  loaded => \A i \in 1..Len(ArticleRefs) : isValidArticle(heap[ArticleRefs[i]])

(***************************************************************************)
(* C5: after a confirmed clearAllData() the in-memory articles and users   *)
(* are the bundled seed: the 4 articles and 7 users with their original    *)
(* values.                                                                 *)
(***************************************************************************)
C5_ClearRestoresSeed ==
  (last.op = "clearAllData" /\ last.ok)
    => (MemArticles = InitialArticles /\ MemUsers = InitialUsers)

(***************************************************************************)
(* C6: a caller changing a value a getter returned (a property of a        *)
(* returned record, or the returned array) changes nothing a later read of *)
(* the store sees.                                                         *)
(***************************************************************************)
C6_ReadsAreCopies ==
  [][(Called("callerWritesRecord") \/ Called("callerPopsArray"))
       => (MemArticles' = MemArticles /\ MemUsers' = MemUsers)]_vars

(***************************************************************************)
(* C7: a successful addArticle whose data carries no id stores a record    *)
(* whose id differs from the id of every article stored before the call,   *)
(* so ids that were pairwise distinct stay pairwise distinct; this holds   *)
(* also when the first candidate id was already taken.                     *)
(***************************************************************************)
DistinctIds ==
  \A i, j \in 1..Len(ArticleRefs) :
    i # j => Get(heap[ArticleRefs[i]], "id") # Get(heap[ArticleRefs[j]], "id")

C7_FreshId ==
  [][(Called("addArticle") /\ last'.ok /\ ~Has(last'.data, "id"))
       => /\ heap'[last'.ref]["id"] \notin ExistingIds
          /\ (DistinctIds => DistinctIds')]_vars

\* an article was added in the millisecond and with the random component of
\* an earlier one: its first candidate id (+2) was taken and it got +4
C7_Witness ==
  /\ last.op = "addArticle" /\ last.ok /\ ~Has(last.data, "id")
  /\ heap[last.ref]["id"] = Big(now * IdScale + 4)
  /\ Big(now * IdScale + 2) \in ExistingIds

(***************************************************************************)
(* C8: a successful updateArticle changes, in the record it targets, only  *)
(* allow-listed properties present in updates, plus updatedAt; it adds no  *)
(* other property, and leaves every other record and the order of the      *)
(* collection as they were.                                                *)
(***************************************************************************)
C8_UpdateFrame ==
  [][(Called("updateArticle") /\ last'.ok)
       => /\ \A f \in (DOMAIN heap[last'.ref]) \cup (DOMAIN heap'[last'.ref]) :
               (Has(heap[last'.ref], f) = Has(heap'[last'.ref], f)
                  /\ Get(heap[last'.ref], f) = Get(heap'[last'.ref], f))
               \/ f = "updatedAt"
               \/ (f \in AllowedUpdateFields /\ Has(last'.data, f))
          /\ \A f \in {"id", "author", "authorId", "createdAt"} :
               Get(heap[last'.ref], f) = Get(heap'[last'.ref], f)
          /\ \A r \in (DOMAIN heap) \ {last'.ref} : heap'[r] = heap[r]
          /\ arrays' = arrays /\ articles' = articles /\ users' = users]_vars

\* an update carrying id, author, authorId, createdAt and an unknown
\* property went through and changed the title
C8_Witness ==
  /\ last.op = "updateArticle" /\ last.ok /\ last.data = UpdEvil
  /\ heap[last.ref]["title"] = Str("New")
  /\ Has(heap[last.ref], "updatedAt")

(***************************************************************************)
(* C9: updateArticle with a status outside the allowed set is a no-op: it  *)
(* returns false and leaves the record, updatedAt included, and the        *)
(* persisted state exactly as they were.                                   *)
(***************************************************************************)
C9_InvalidUpdateNoOp ==
  [][(Called("updateArticle") /\ last'.ref # 0
        /\ Get(last'.data, "status") \notin ARTICLE_STATUS \cup {Undef})
       => (~last'.ok /\ heap'[last'.ref] = heap[last'.ref] /\ ls' = ls)]_vars

(***************************************************************************)
(* C10: whenever addArticle reports failure (invalid data, or a failed     *)
(* write after the append) the in-memory article sequence is the one       *)
(* before the call: same array, same length, same records, same order.     *)
(***************************************************************************)
C10_AddFailureUnchanged ==
  [][(Called("addArticle") /\ ~last'.ok)
       => /\ articles' = articles
          /\ arrays'[articles'] = arrays[articles]
          /\ MemArticles' = MemArticles]_vars

\* addArticle failed after the append: the articles write went through and
\* the users write did not
C10_Witness ==
  /\ last.op = "addArticle" /\ ~last.ok /\ last.saved
  /\ last.okA /\ ~last.okU

(***************************************************************************)
(* C11: importData is all-or-nothing.  It returns true and both            *)
(* collections hold the imported records only when data has articles and   *)
(* users, every article and every user passes its validator and both       *)
(* writes succeed; in every other case it returns false and the in-memory  *)
(* articles and users are the ones before the call.                        *)
(***************************************************************************)
C11_ImportAllOrNothing ==
  [][Called("importData")
       => LET d == last'.data
              accepted ==
                /\ d.hasArticles /\ d.hasUsers
                /\ \A i \in 1..Len(d.articles) : isValidArticle(d.articles[i])
                /\ \A i \in 1..Len(d.users) : isValidUser(d.users[i])
                /\ last'.okA /\ last'.okU
          IN IF accepted
             THEN last'.ok /\ MemArticles' = d.articles /\ MemUsers' = d.users
             ELSE ~last'.ok /\ MemArticles' = MemArticles
                            /\ MemUsers' = MemUsers]_vars

\* an import of valid records whose users write failed: rolled back
C11_Witness ==
  /\ last.op = "importData" /\ ~last.ok /\ last.saved
  /\ last.okA /\ ~last.okU
  /\ MemArticles # last.data.articles
  /\ MemUsers # last.data.users
  /\ articles \notin {SeedArticlesArr, SeedUsersArr}
(***************************************************************************)
(* C12: a successful updateArticleStatus(id, 'published') on an article    *)
(* with no publishDate sets status to published and publishDate to the     *)
(* current date; an article whose publishDate is set keeps it through      *)
(* every updateArticleStatus call, whatever the status, the outcome and    *)
(* the date of the call.                                                   *)
(***************************************************************************)
C12_PublishDateOnce ==
  [][(Called("updateArticleStatus") /\ last'.ref # 0)
       => LET before == heap[last'.ref]
              after == heap'[last'.ref]
          IN /\ Truthy(Get(before, "publishDate"))
                  => /\ Has(after, "publishDate")
                     /\ after["publishDate"] = before["publishDate"]
             /\ (last'.ok /\ last'.data["status"] = PUBLISHED
                   /\ ~Truthy(Get(before, "publishDate")))
                  => /\ after["status"] = PUBLISHED
                     /\ Has(after, "publishDate")
                     /\ after["publishDate"] = DateOnly(now)]_vars

\* published on one day, published again on a later day: the first date
\* stays (the clock has not moved since the last call once nops = MaxOps)
C12_Witness ==
  /\ nops = MaxOps
  /\ last.op = "updateArticleStatus" /\ last.ok
  /\ last.data["status"] = PUBLISHED
  /\ Get(heap[last.ref], "publishDate") = DateOnly(1)
  /\ DateOnly(now) # DateOnly(1)
(***************************************************************************)
(* C13: when storage holds the saved in-memory article sequence, running   *)
(* init() again leaves the same sequence in memory: the same records in    *)
(* the same order, each with the same fields and values, the empty         *)
(* sequence included.                                                      *)
(***************************************************************************)
C13_SaveLoadRoundTrip ==
  [][(loaded /\ Called("init")
        /\ ls.articles = Stringify(heap, arrays, articles))
       => MemArticles' = MemArticles]_vars
(***************************************************************************)
(* C14: in every state of the loaded store getStats() returns the number   *)
(* of stored articles, the number of articles of each status, the sums of  *)
(* views and of engagement with a missing value counted as 0, and the      *)
(* number of users whose role is author.                                   *)
(***************************************************************************)
NumberOr0(record, field) ==
  IF Has(record, field) /\ record[field].t = "num" THEN record[field].n ELSE 0

RECURSIVE Total(_, _)
Total(records, field) ==
  IF Len(records) = 0 THEN 0
  ELSE Total(SubSeq(records, 1, Len(records) - 1), field)
         + NumberOr0(records[Len(records)], field)

HowMany(records, field, v) ==
  Cardinality({i \in 1..Len(records) :
                 Has(records[i], field) /\ records[i][field] = v})

C14_StatsCorrect ==
  loaded =>
    getStats =
      [totalArticles |-> Num(Len(MemArticles)),
       published |-> Num(HowMany(MemArticles, "status", Str("published"))),
       review |-> Num(HowMany(MemArticles, "status", Str("review"))),
       draft |-> Num(HowMany(MemArticles, "status", Str("draft"))),
       totalViews |-> Num(Total(MemArticles, "views")),
       totalEngagement |-> Num(Total(MemArticles, "engagement")),
       totalAuthors |-> Num(HowMany(MemUsers, "role", Str("author")))]

\* articles of two statuses, one of them with no views value, and authors
C14_Witness ==
  /\ loaded
  /\ \E i \in 1..Len(MemArticles) :
       Has(MemArticles[i], "status") /\ Get(MemArticles[i], "views") = Undef
  /\ getStats.totalViews.n > 0
  /\ getStats.published.n > 0 /\ getStats.draft.n > 0
  /\ getStats.totalAuthors.n > 0
(***************************************************************************)
(* C15: getAuthorStats(authorId) returns the all-zero result for an id     *)
(* that is no integer (a text that is no number), avgEngagement 0 for an   *)
(* author with no articles, and otherwise the count, the published count    *)
(* and the view sum of exactly that author's articles, with avgEngagement  *)
(* the integer nearest to their total engagement divided by their count    *)
(* (a half goes up).                                                       *)
(***************************************************************************)
IntegerOf(id) ==
  IF id.t = "num" THEN id.n
  ELSE IF id = Str("1") THEN 1
  ELSE -1

ArticlesOf(k) ==
  SelectSeq(MemArticles, LAMBDA a : Has(a, "authorId") /\ a["authorId"] = Num(k))

C16_UsersUntouched ==
  [][(\E op \in {"addArticle", "updateArticle", "updateArticleStatus",
                 "deleteArticle"} : Called(op))
       => /\ users' = users
          /\ arrays'[users'] = arrays[users]
          /\ MemUsers' = MemUsers]_vars

\* an addArticle that was rolled back after the articles write failed
C16_Witness ==
  /\ last.op = "addArticle" /\ ~last.ok /\ last.saved /\ ~last.okA
  /\ Len(MemUsers) > 0
(***************************************************************************)
(* C17, as stated: updateArticleStatus does not coerce id.  Called with    *)
(* the text '1' while an article with the numeric id 1 exists, and with a  *)
(* valid status, it finds no article, returns false and changes nothing.   *)
(***************************************************************************)
TextIdCall ==
  /\ Called("updateArticleStatus")
  /\ last'.id = Str("1")
  /\ last'.data["status"] \in ARTICLE_STATUS
  /\ Num(1) \in ExistingIds

C17_NoCoercion ==
  [][TextIdCall
       => /\ ~last'.ok /\ last'.ref = 0
          /\ UNCHANGED <<heap, arrays, articles, users, ls>>]_vars

(***************************************************************************)
(* C17, amended: updateArticleStatus looks the article up with             *)
(* getArticleById, which coerces id with parseInt.  Called with the text   *)
(* '1' while an article with the numeric id 1 exists, and with a valid     *)
(* status, it finds the first such article and goes on to save: it returns *)
(* true exactly when both writes succeed, and the article then has the new *)
(* status.                                                                 *)
(***************************************************************************)
C17_CoercesId ==
  [][TextIdCall
       => /\ last'.ref # 0
          /\ last'.ref = ArticleRefs[CHOOSE i \in 1..Len(ArticleRefs) :
                            /\ Get(heap[ArticleRefs[i]], "id") = Num(1)
                            /\ \A j \in 1..(i - 1) :
                                 Get(heap[ArticleRefs[j]], "id") # Num(1)]
          /\ last'.saved
          /\ last'.ok <=> (last'.okA /\ last'.okU)
          /\ last'.ok => heap'[last'.ref]["status"] = last'.data["status"]]_vars

\* updateArticleStatus('1', 'draft') changed the published article 1
C17_Witness ==
  /\ last.op = "updateArticleStatus" /\ last.id = Str("1") /\ last.ok
  /\ heap[last.ref]["id"] = Num(1)
  /\ last.data["status"] = Str("draft")
  /\ heap[last.ref]["status"] = Str("draft")
  /\ Truthy(Get(heap[last.ref], "publishDate"))
(***************************************************************************)
(* C18: when a write fails during updateArticleStatus(id, 'published') on  *)
(* an article that had no publishDate, the call returns false and the      *)
(* article has its old status again, but the publishDate the call set      *)
(* stays: the article now carries the date of the call.                    *)
(***************************************************************************)
C18_PublishDateSurvivesRollback ==
  [][(/\ Called("updateArticleStatus") /\ last'.ref # 0
      /\ last'.data["status"] = PUBLISHED
      /\ ~Truthy(Get(heap[last'.ref], "publishDate"))
      /\ last'.saved /\ ~(last'.okA /\ last'.okU))
       => /\ ~last'.ok
          /\ Get(heap'[last'.ref], "status") = Get(heap[last'.ref], "status")
          /\ Has(heap'[last'.ref], "publishDate")
          /\ heap'[last'.ref]["publishDate"] = DateOnly(now)]_vars

\* a draft that a failed publish left as a draft with a publishDate
C18_Witness ==
  /\ last.op = "updateArticleStatus" /\ ~last.ok /\ last.saved
  /\ last.data["status"] = PUBLISHED
  /\ heap[last.ref]["status"] = Str("draft")
  /\ Get(heap[last.ref], "publishDate") = DateOnly(now)
(***************************************************************************)
(* C19: when a successful updateArticleStatus or updateArticle moves an    *)
(* article that was not published and has no publishDate to the status     *)
(* published, the article's publishDate is the current date after the      *)
(* call.                                                                   *)
(***************************************************************************)
C19_FirstPublishDated ==
  [][(/\ Called("updateArticleStatus") \/ Called("updateArticle")
      /\ last'.ok /\ last'.ref # 0
      /\ Get(heap[last'.ref], "status") # PUBLISHED
      /\ Get(heap'[last'.ref], "status") = PUBLISHED
      /\ ~Truthy(Get(heap[last'.ref], "publishDate")))
       => /\ Has(heap'[last'.ref], "publishDate")
          /\ heap'[last'.ref]["publishDate"] = DateOnly(now)]_vars
(***************************************************************************)
(* C20: a successful deleteArticle(id) removes exactly the first article   *)
(* with that id and keeps all the others in their order; when a write      *)
(* fails the record is back at its index, the sequence is the one before   *)
(* the call element for element, and the call returns false.               *)
(***************************************************************************)
C20_DeleteExact ==
  [][(Called("deleteArticle") /\ last'.saved)
       => LET before == ArticleRefs
              first == CHOOSE i \in 1..Len(before) :
                         /\ Get(heap[before[i]], "id") = ParseInt(last'.id)
                         /\ \A j \in 1..(i - 1) :
                              Get(heap[before[j]], "id") # ParseInt(last'.id)
              after == arrays'[articles']
          IN /\ articles' = articles
             /\ last'.ok <=> (last'.okA /\ last'.okU)
             /\ last'.ok =>
                  /\ Len(after) = Len(before) - 1
                  /\ \A i \in 1..Len(after) :
                       after[i] = IF i < first THEN before[i] ELSE before[i + 1]
                  /\ \A i \in 1..Len(after) : heap'[after[i]] = heap[after[i]]
             /\ ~last'.ok => (after = before /\ MemArticles' = MemArticles)]_vars

\* a delete of the first of several articles that was rolled back
C20_Witness ==
  /\ last.op = "deleteArticle" /\ ~last.ok /\ last.saved
  /\ Len(ArticleRefs) > 1
  /\ ArticleRefs[1] = last.ref

(***************************************************************************)
(* C21: init() settles each key on its own.  The articles it loads are the *)
(* stored sequence when the articles text parses to one and the seed       *)
(* collection INITIAL_DATA.articles otherwise, whatever the users text     *)
(* holds; and the same for the users with the users text.                  *)
(***************************************************************************)
SeedArticles == Deref(heap, arrays, SeedArticlesArr)
SeedUsers == Deref(heap, arrays, SeedUsersArr)

C21_PerKeyFallback ==
  [][(~loaded /\ loaded') \/ Called("init") =>
       /\ MemArticles' = IF ls.articles.kind = "array" THEN ls.articles.items
                         ELSE SeedArticles
       /\ MemUsers' = IF ls.users.kind = "array" THEN ls.users.items
                      ELSE SeedUsers
       /\ (ls.articles.kind # "array" <=> articles' = SeedArticlesArr)
       /\ (ls.users.kind # "array" <=> users' = SeedUsersArr)]_vars

\* init() has loaded the stored users while the articles, absent from the
\* store, came from the seed
C21_Witness ==
  /\ last.op = "init"
  /\ ls.articles.kind = "absent"
  /\ ls.users.kind = "array"
  /\ articles = SeedArticlesArr
  /\ users # SeedUsersArr
  /\ MemUsers = ls.users.items
  /\ MemUsers # SeedUsers

(***************************************************************************)
(* C23: a completed addArticle, updateArticle, updateArticleStatus,        *)
(* deleteArticle or importData that starts with every article of the store *)
(* passing the shape check and carrying non-negative integer views and     *)
(* engagement ends with every article's views and engagement non-negative  *)
(* integers.                                                               *)
(***************************************************************************)
NonNegativeInteger(v) == v.t = "num" /\ v.n >= 0

CountersValid ==
  \A i \in 1..Len(MemArticles) :
    /\ NonNegativeInteger(Get(MemArticles[i], "views"))
    /\ NonNegativeInteger(Get(MemArticles[i], "engagement"))

C23_CountersNonNegative ==
  [][((\E op \in WriteOps : Called(op)) /\ C4_ArticlesValid /\ CountersValid)
       => CountersValid']_vars

(***************************************************************************)
(* C24: a completed addArticle, updateArticle, updateArticleStatus,        *)
(* deleteArticle or importData that starts with every article carrying an  *)
(* integer id and no id held twice ends the same way.                      *)
(***************************************************************************)
IntegerIds ==
  \A i \in 1..Len(MemArticles) : Get(MemArticles[i], "id").t = "num"

C24_IdsUnique ==
  [][((\E op \in WriteOps : Called(op)) /\ IntegerIds /\ DistinctIds)
       => (IntegerIds' /\ DistinctIds')]_vars

(***************************************************************************)
(* C25: whatever ids the articles of the store hold and whatever candidate *)
(* the clock and the random component give, generateUniqueId(existingIds)  *)
(* comes to an end and returns an id that is not among existingIds.        *)
(***************************************************************************)
C25_IdLoopTerminates ==
  loaded =>
    \A random \in RandomInputs :
      LET newId == generateUniqueId(ExistingIds, now, random)
      IN newId # Diverges /\ newId \notin ExistingIds

(***************************************************************************)
(* C27: when a confirmed clearAllData() has returned true, localStorage    *)
(* holds the seed collections under the articles key and under the users   *)
(* key; a clearAllData() whose writes did not both succeed has not         *)
(* returned true.                                                          *)
(***************************************************************************)
C27_ClearPersistsSeed ==
  (last.op = "clearAllData" /\ last.ok)
    => /\ ls.articles = Stringify(heap, arrays, SeedArticlesArr)
       /\ ls.users = Stringify(heap, arrays, SeedUsersArr)
       /\ last.okA /\ last.okU

(***************************************************************************)
(* C22: with two pages open on one store, a successful write of either     *)
(* page leaves under the articles key exactly the articles that page holds *)
(* in memory, whatever the other page has persisted since this page        *)
(* loaded: nothing is compared or merged, so an article the other page     *)
(* added successfully is gone from the store after this page's write.      *)
(***************************************************************************)
C22_LastWriterWins ==
  [][((\E op \in WriteOps : Called(op)) /\ last'.ok)
       => /\ ls'.articles = Stringify(heap', arrays', articles')
          /\ ls'.users = Stringify(heap', arrays', users')]_vars

\* The waiting page added an article and was told it succeeded; the running
\* page, which loaded before that, has then added one of its own and was
\* told it succeeded; the store no longer holds the article the waiting
\* page added
C22_Witness ==
  /\ other.open /\ other.loaded /\ loaded /\ nops = 2
  /\ other.last.op = "addArticle" /\ other.last.ok
  /\ last.op = "addArticle" /\ last.ok
  /\ ls.articles = Stringify(heap, arrays, articles)
  /\ \A i \in 1..Len(ls.articles.items) :
       Get(ls.articles.items[i], "id") # Get(heap[other.last.ref], "id")

(***************************************************************************)
(* C28: for every magic-link token, over any sequence of saveToken,        *)
(* verifyToken and cleanup steps, at most one verifyToken call returns     *)
(* valid.                                                                  *)
(***************************************************************************)
C28_ValidOnce ==
  \A t \in TokenInputs : last.valids[t] <= 1

(***************************************************************************)
(* C28, amended: at most one verifyToken call returns valid for a token    *)
(* after each saveToken of it; a stored token that is marked used stays    *)
(* marked until it is deleted or saveToken stores it again.                *)
(***************************************************************************)
C28_ValidOncePerSave ==
  [][/\ \A t \in TokenInputs : last'.armed[t] <= 1
     /\ \A t \in DOMAIN ls.tokens :
          ls.tokens[t].used
            => \/ t \notin DOMAIN ls'.tokens
               \/ ls'.tokens[t].used
               \/ (last'.op = "saveToken" /\ last'.token = t /\ nops' = nops + 1)]_vars

\* A second verifyToken of a token has just been turned down as already
\* used; the first returned valid and the token has not been saved since
C28_Witness ==
  /\ last.op = "verifyToken" /\ ~last.valid /\ last.reason = "Token already used"
  /\ last.armed[last.token] = 1
  /\ last.valids[last.token] = 1

Visited(token) ==
  nops' = nops + 1 /\ last'.op = "verifyConfirmationToken" /\ last'.token = token

C26_LinkExpires ==
  [][\A t \in DOMAIN ls.subs :
       (Visited(t) /\ now > ls.subs[t].subscribedAt.n + LinkValidity)
         => (last'.shown = "errorState" /\ ls' = ls)]_vars

(***************************************************************************)
(* C30: a visit ends in the success state only when a subscription with    *)
(* the token exists and is not yet confirmed; once a visit with a token    *)
(* has ended in success, every later visit with it shows the error state;  *)
(* and a subscription that is confirmed stays confirmed.                   *)
(***************************************************************************)
C30_ConfirmsOnce ==
  [][/\ \A t \in SubTokenInputs :
          Visited(t)
            => /\ last'.shown = "successState"
                    => (t \in DOMAIN ls.subs /\ ~ls.subs[t].confirmed)
               /\ last.succ[t] >= 1 => last'.shown = "errorState"
     /\ \A t \in DOMAIN ls.subs :
          ls.subs[t].confirmed
            => (t \in DOMAIN ls'.subs /\ ls'.subs[t].confirmed)]_vars

(***************************************************************************)
(* C30, amended: a visit ends in the success state only when a             *)
(* subscription with the token exists and is not yet confirmed; once a     *)
(* visit with a token has ended in success, every later visit with it      *)
(* shows the error state until handleSubscription saves a new subscription *)
(* under that token; and a confirmed subscription stays confirmed except   *)
(* when handleSubscription replaces it.                                    *)
(***************************************************************************)
C30_ConfirmsOncePerSubscription ==
  [][/\ \A t \in SubTokenInputs :
          Visited(t)
            => /\ last'.shown = "successState"
                    => (t \in DOMAIN ls.subs /\ ~ls.subs[t].confirmed)
               /\ last.fresh[t] >= 1 => last'.shown = "errorState"
     /\ \A t \in DOMAIN ls.subs :
          ls.subs[t].confirmed
            => \/ (t \in DOMAIN ls'.subs /\ ls'.subs[t].confirmed)
               \/ (nops' = nops + 1 /\ last'.op = "handleSubscription"
                     /\ last'.token = t)]_vars

\* A second visit with a token has just shown the error state: the first
\* ended in success and the subscription is still the confirmed one
C30_Witness ==
  /\ last.op = "verifyConfirmationToken" /\ last.shown = "errorState"
  /\ last.token \in DOMAIN ls.subs
  /\ ls.subs[last.token].confirmed
  /\ last.fresh[last.token] = 1

====
